---- MODULE Spec2Model ----
(***************************************************************************)
(* Client Chat State of the AI chat web application                        *)
(* (frontend/src/App.jsx): the React component's state, its refs, the      *)
(* chat requests in flight and the clock read by Date.now().               *)
(*                                                                         *)
(* One action is one browser task: an event handler, or the continuation   *)
(* of sendMessage after its awaited fetch settles.  React applies the      *)
(* state updates a task queued, updater functions included, before the     *)
(* next task runs, so each action contains them.                           *)
(*                                                                         *)
(* Three specifications share the variables:                               *)
(*   Spec         the chat of the mounted component, health probes left    *)
(*                out;                                                     *)
(*   SpecHealth   the mount effect, its interval and the health probes,    *)
(*                next to one chat exchange;                               *)
(*   SpecBackend  one call of the chat endpoint after the other: model     *)
(*                output, Quality Gate, Fallback Responder.                *)
(***************************************************************************)
EXTENDS Integers, Sequences, FiniteSets, TLC

VARIABLES
    messages,            \* useState([])            App.jsx:8
    input,               \* useState('')            App.jsx:9
    loading,             \* useState(false)         App.jsx:10
    error,               \* useState(null)          App.jsx:11
    connectionStatus,    \* useState('checking')    App.jsx:12
    sendingRef,          \* useRef(false)           App.jsx:14
    pendingMessagesRef,  \* useRef(new Set())       App.jsx:15
    lastMessageRef,      \* useRef({role, content, timestamp})  App.jsx:16
    inflight,            \* POST /chat requests issued and not yet settled
    now,                 \* Date.now()
    nextId,              \* number of message ids generated so far
    mountState,          \* "rendered", "mounted" (effect ran), "unmounted"
    interval,            \* the timer of setInterval       App.jsx:49
    healthInflight,      \* GET /health requests issued and not yet settled
    probesIssued,        \* number of calls of checkConnection so far
    call                 \* the call the chat endpoint is serving

clientVars == <<messages, input, loading, error, connectionStatus, sendingRef,
                pendingMessagesRef, lastMessageRef, inflight, now, nextId>>

healthVars == <<mountState, interval, healthInflight, probesIssued>>

serverVars == <<call>>

vars == <<clientVars, healthVars, serverVars>>

----------------------------------------------------------------------------
(* Bounds of the model *)

MaxIds == 3        \* a send is attempted only while fewer ids were generated
MaxTicks == 2      \* the clock steps by TickMs up to MaxTicks * TickMs, and
                   \* from there to the timeout of a request only

(* Program constants *)

DedupWindowMs == 2000     \* App.jsx:64
FetchTimeoutMs == 60000   \* App.jsx:146
TickMs == DedupWindowMs \div 2   \* granularity of the modelled clock

API_URL == "http://localhost:8000"

Null == "<null>"          \* JavaScript null / undefined

----------------------------------------------------------------------------
(* String helpers: String.prototype.trim and String.prototype.includes *)

IsSpace(c) == c = " "

RECURSIVE TrimStart(_)
TrimStart(s) ==
    IF Len(s) > 0 /\ IsSpace(SubSeq(s, 1, 1))
    THEN TrimStart(SubSeq(s, 2, Len(s)))
    ELSE s

RECURSIVE TrimEnd(_)
TrimEnd(s) ==
    IF Len(s) > 0 /\ IsSpace(SubSeq(s, Len(s), Len(s)))
    THEN TrimEnd(SubSeq(s, 1, Len(s) - 1))
    ELSE s

\* Trim removing nothing
TrimNothing(s) == s

Trim(s) == TrimEnd(TrimStart(s))

Includes(s, sub) ==
    \E i \in 1..(Len(s) - Len(sub) + 1) : SubSeq(s, i, i + Len(sub) - 1) = sub

----------------------------------------------------------------------------
(* The environment: what the user types and what the network answers *)

InputTexts == {" ", "cv ", "merci"}

Replies == {"Bonjour! Comment puis-je vous aider aujourd'hui?",
            "De rien!"}

\* bodies of an OK response: reply present, reply empty, reply missing
ResponseBodies ==
    [reply : Replies \cup {"", Null}]

HttpStatuses == {400, 403, 404, 500, 503}

\* what fetch rejects with when the network fails, by browser
NetworkErrors ==
    { [name |-> "TypeError", message |-> "Failed to fetch"],
      [name |-> "TypeError", message |-> "Load failed"] }

\* what fetch rejects with when AbortSignal.timeout(ms) fires: the signal's
\* reason, a DOMException named TimeoutError; engines that do not pass the
\* reason on reject with the generic AbortError
TimeoutErrors ==
    { [name |-> "TimeoutError", message |-> "signal timed out"],
      [name |-> "AbortError", message |-> "The operation was aborted."] }

----------------------------------------------------------------------------
NoMessage == [role |-> Null, content |-> Null, timestamp |-> 0]

\* no timer set
NoInterval == [armed |-> FALSE, due |-> 0]

\* the chat endpoint serves no call
Idle ==
    [phase |-> "idle", message |-> "", history |-> <<>>, generated |-> "",
     degenerate |-> FALSE, reply |-> ""]

\* the component has rendered for the first time; its effects have not run
Init ==
    /\ messages = <<>>
    /\ input = ""
    /\ loading = FALSE
    /\ error = Null
    /\ connectionStatus = "checking"
    /\ sendingRef = FALSE
    /\ pendingMessagesRef = {}
    /\ lastMessageRef = NoMessage
    /\ inflight = {}
    /\ now = 0
    /\ nextId = 0
    /\ mountState = "rendered"
    /\ interval = NoInterval
    /\ healthInflight = {}
    /\ probesIssued = 0
    /\ call = Idle

----------------------------------------------------------------------------
(* Helpers of the component *)

\* isDuplicateMessage(role, content), App.jsx:59-68
isDuplicateMessage(role, content) ==
    /\ lastMessageRef.role = role
    /\ lastMessageRef.content = content
    /\ now - lastMessageRef.timestamp < DedupWindowMs

\* lastMsg && lastMsg.role === role && lastMsg.content === content
LastIs(prev, role, content) ==
    /\ Len(prev) > 0
    /\ prev[Len(prev)].role = role
    /\ prev[Len(prev)].content = content

\* currentMessages.map(m => ({ role: m.role, content: m.content }))
History(msgs) ==
    [i \in 1..Len(msgs) |-> [role |-> msgs[i].role, content |-> msgs[i].content]]

\* disabled={loading || sendingRef.current} of the textarea
InputDisabled == loading \/ sendingRef

\* the guards in front of sendMessage's work, App.jsx:72 and 80
SendGuard(text) ==
    /\ ~(sendingRef \/ loading \/ Trim(text) = "")
    /\ ~isDuplicateMessage("user", Trim(text))

----------------------------------------------------------------------------
(* The user types: onChange={(e) => setInput(e.target.value)} *)

onChange(value) ==
    /\ ~InputDisabled
    /\ value # input
    /\ input' = value
    /\ UNCHANGED <<messages, loading, error, connectionStatus, sendingRef,
                   pendingMessagesRef, lastMessageRef, inflight, now, nextId>>
    /\ UNCHANGED <<healthVars, serverVars>>

----------------------------------------------------------------------------
(* sendMessage up to its await, with the render that follows the event *)

\* ChatRequest reading the message list after the user message was appended
ChatRequestAfterAppend(id, userMessage) ==
    [id |-> id, message |-> userMessage,
     history |-> History(Append(messages, [role |-> "user",
                                           content |-> userMessage])),
     issuedAt |-> now]

\* the request handed to fetch, App.jsx:134-147
ChatRequest(id, userMessage) ==
    [id |-> id, message |-> userMessage, history |-> History(messages),
     issuedAt |-> now]

\* setMessages(prev => ...), App.jsx:114-130: the message list after the
\* updater ran
UserAppend(prev, id, userMessage) ==
    IF LastIs(prev, "user", userMessage)
    THEN prev
    ELSE Append(prev, [id |-> id, role |-> "user", content |-> userMessage,
                       timestamp |-> now])

\* App.jsx:70-147
sendMessage ==
    LET userMessage == Trim(input)
        userMessageId == nextId + 1
    IN
    IF ~SendGuard(input)
    THEN \* the early returns of App.jsx:72-74 and 80-83
         UNCHANGED vars
    ELSE \* App.jsx:86-147; the updater of 86-93 returns its argument
         /\ nextId < MaxIds
         /\ nextId' = userMessageId
         /\ input' = ""
         /\ error' = Null
         /\ lastMessageRef' = [role |-> "user", content |-> userMessage,
                               timestamp |-> now]
         /\ messages' = UserAppend(messages, userMessageId, userMessage)
         /\ inflight' = inflight \cup {ChatRequest(userMessageId, userMessage)}
         /\ IF LastIs(messages, "user", userMessage)
            THEN \* App.jsx:117-121, run by the render that follows the
                 \* event, after fetch was called
                 /\ pendingMessagesRef' = pendingMessagesRef \ {userMessageId}
                 /\ sendingRef' = FALSE
                 /\ loading' = FALSE
            ELSE /\ pendingMessagesRef' = pendingMessagesRef \cup {userMessageId}
                 /\ sendingRef' = TRUE
                 /\ loading' = TRUE
         /\ UNCHANGED <<connectionStatus, now>>
         /\ UNCHANGED <<healthVars, serverVars>>

KeyEvents == [key : {"Enter", "a"}, shiftKey : BOOLEAN]

\* App.jsx:234-241
handleKeyPress(e) ==
    IF e.key = "Enter" /\ ~e.shiftKey
    THEN IF ~loading /\ Trim(input) # "" /\ ~sendingRef
         THEN sendMessage
         ELSE UNCHANGED vars
    ELSE UNCHANGED vars

\* handleKeyDown not looking at the Shift key
handleKeyDownAnyEnter(e) ==
    IF e.key = "Enter"
    THEN IF ~loading /\ Trim(input) # "" /\ ~sendingRef
         THEN sendMessage
         ELSE UNCHANGED vars
    ELSE UNCHANGED vars

\* App.jsx:243-250
handleKeyDown(e) ==
    IF e.key = "Enter" /\ ~e.shiftKey
    THEN IF ~loading /\ Trim(input) # "" /\ ~sendingRef
         THEN sendMessage
         ELSE UNCHANGED vars
    ELSE UNCHANGED vars

\* App.jsx:321-331
onSubmit ==
    IF ~loading /\ Trim(input) # "" /\ ~sendingRef
    THEN IF isDuplicateMessage("user", Trim(input))
         THEN UNCHANGED vars
         ELSE sendMessage
    ELSE UNCHANGED vars

----------------------------------------------------------------------------
\* clearChat leaving the record of the last message as it is
clearChatKeepsLast ==
    /\ messages' = <<>>
    /\ error' = Null
    /\ pendingMessagesRef' = {}
    /\ UNCHANGED <<input, loading, connectionStatus, sendingRef, inflight,
                   now, nextId, lastMessageRef>>
    /\ UNCHANGED <<healthVars, serverVars>>

\* App.jsx:252-257
clearChat ==
    /\ messages' = <<>>
    /\ error' = Null
    /\ pendingMessagesRef' = {}
    /\ lastMessageRef' = NoMessage
    /\ UNCHANGED <<input, loading, connectionStatus, sendingRef, inflight,
                   now, nextId>>
    /\ UNCHANGED <<healthVars, serverVars>>

----------------------------------------------------------------------------
(* sendMessage after its await: the fetch of request r settled *)

\* StatusMessage without its 404 branch
StatusMessageNo404(status) ==
    IF status = 403
    THEN "Accès refusé. Vérifiez que le backend est démarré et que CORS est configuré correctement."
    ELSE IF status = 500
    THEN "Erreur serveur. Le modèle n'est peut-être pas chargé."
    ELSE IF status = 503
    THEN "Service indisponible. Le modèle est en cours de chargement..."
    ELSE "Erreur " \o ToString(status)

\* App.jsx:151-161
StatusMessage(status) ==
    IF status = 403
    THEN "Accès refusé. Vérifiez que le backend est démarré et que CORS est configuré correctement."
    ELSE IF status = 404
    THEN "Endpoint non trouvé. Vérifiez l'URL de l'API."
    ELSE IF status = 500
    THEN "Erreur serveur. Le modèle n'est peut-être pas chargé."
    ELSE IF status = 503
    THEN "Service indisponible. Le modèle est en cours de chargement..."
    ELSE "Erreur " \o ToString(status)

\* new Error(`${errorMessage} (${response.status})`), App.jsx:163
HttpError(status) ==
    [name |-> "Error",
     message |-> StatusMessage(status) \o " (" \o ToString(status) \o ")"]

\* ReplyMissing testing for undefined only: an empty reply passes
ReplyUndefinedOnly(data) == data.reply = Null

\* if (!data.reply), App.jsx:168
ReplyMissing(data) == data.reply = Null \/ data.reply = ""

\* new Error('Réponse invalide du serveur'), App.jsx:169
InvalidReplyError == [name |-> "Error", message |-> "Réponse invalide du serveur"]

\* what response.json() throws on a body that is not JSON
JsonParseError ==
    [name |-> "SyntaxError", message |-> "Unexpected token < in JSON at position 0"]

TimeoutMessage ==
    "Timeout: La requête a pris trop de temps. Le modèle est peut-être en train de se charger."

ConnectMessage ==
    "Impossible de se connecter au backend. Vérifiez que le serveur est démarré sur "
        \o API_URL

\* the branch conditions of the catch block, App.jsx:219 and 221
IsAbort(err) == err.name = "AbortError"

IsNetworkFailure(err) == err.name = "TypeError" /\ Includes(err.message, "fetch")

\* the argument of setError in the catch block, App.jsx:219-226
CatchMessage(err) ==
    IF IsAbort(err) THEN TimeoutMessage
    ELSE IF IsNetworkFailure(err) THEN ConnectMessage
    ELSE err.message

\* CatchStatus without the setConnectionStatus call
CatchStatusUnchanged(err) == connectionStatus

\* CatchStatus calling setConnectionStatus for every error
CatchStatusAnyError(err) == "disconnected"

\* connectionStatus after the catch block, App.jsx:221-223
CatchStatus(err) ==
    IF ~IsAbort(err) /\ IsNetworkFailure(err)
    THEN "disconnected"
    ELSE connectionStatus

\* Finally without the reset of the sending flag
FinallyKeepsSending ==
    /\ loading' = FALSE
    /\ sendingRef' = sendingRef

\* Finally without the call of setLoading
FinallyKeepsLoading ==
    /\ loading' = loading
    /\ sendingRef' = FALSE

\* finally { setLoading(false); sendingRef.current = false }, App.jsx:228-231
Finally ==
    /\ loading' = FALSE
    /\ sendingRef' = FALSE

\* Settled with the request issued again
SettledWithRetry(r) == (inflight \ {r}) \cup {[r EXCEPT !.issuedAt = now]}

\* the requests in flight once r has settled: the catch block starts none
Settled(r) == inflight \ {r}

\* Catch putting the text that was sent back in the input field
CatchRestoresInput(r, err) ==
    /\ pendingMessagesRef' = pendingMessagesRef \ {r.id}
    /\ error' = CatchMessage(err)
    /\ connectionStatus' = CatchStatus(err)
    /\ Finally
    /\ inflight' = Settled(r)
    /\ input' = r.message
    /\ UNCHANGED <<messages, lastMessageRef, now, nextId>>
    /\ UNCHANGED <<healthVars, serverVars>>

\* Catch without the removal of the pending id
CatchKeepsPending(r, err) ==
    /\ pendingMessagesRef' = pendingMessagesRef
    /\ error' = CatchMessage(err)
    /\ connectionStatus' = CatchStatus(err)
    /\ Finally
    /\ inflight' = Settled(r)
    /\ UNCHANGED <<messages, input, lastMessageRef, now, nextId>>
    /\ UNCHANGED <<healthVars, serverVars>>

\* catch (err) { ... } finally { ... }, App.jsx:217-231
Catch(r, err) ==
    /\ pendingMessagesRef' = pendingMessagesRef \ {r.id}
    /\ error' = CatchMessage(err)
    /\ connectionStatus' = CatchStatus(err)
    /\ Finally
    /\ inflight' = Settled(r)
    /\ UNCHANGED <<messages, input, lastMessageRef, now, nextId>>
    /\ UNCHANGED <<healthVars, serverVars>>

\* prev.slice(-3).some(msg => msg.role === 'assistant' && msg.content === reply)
RecentHas(prev, reply) ==
    \E i \in 1..Len(prev) :
        /\ i > Len(prev) - 3
        /\ prev[i].role = "assistant"
        /\ prev[i].content = reply

\* AssistantAppend putting the reply in the place of the last message
AssistantReplaceLast(prev, id, reply) ==
    IF LastIs(prev, "assistant", reply) THEN prev
    ELSE IF RecentHas(prev, reply) THEN prev
    ELSE Append(SubSeq(prev, 1, Len(prev) - 1),
                [id |-> id, role |-> "assistant", content |-> reply,
                 timestamp |-> now])

\* setMessages(prev => ...), App.jsx:188-215: the message list after the
\* updater ran
AssistantAppend(prev, id, reply) ==
    IF LastIs(prev, "assistant", reply) THEN prev
    ELSE IF RecentHas(prev, reply) THEN prev
    ELSE Append(prev, [id |-> id, role |-> "assistant", content |-> reply,
                       timestamp |-> now])

\* the fetch of r has not been aborted by AbortSignal.timeout(60000)
Pending(r) == now < r.issuedAt + FetchTimeoutMs

\* the response is OK and its body parses, App.jsx:166-216
ChatReply(r, data) ==
    LET assistantMessageId == nextId + 1 IN
    /\ r \in inflight
    /\ Pending(r)
    /\ IF ReplyMissing(data)
       THEN \* App.jsx:168-170
            Catch(r, InvalidReplyError)
       ELSE /\ nextId' = assistantMessageId
            /\ pendingMessagesRef' = pendingMessagesRef \ {r.id}
            /\ inflight' = Settled(r)
            /\ Finally
            /\ IF isDuplicateMessage("assistant", data.reply)
               THEN \* App.jsx:176-182
                    UNCHANGED <<messages, lastMessageRef, connectionStatus>>
               ELSE /\ lastMessageRef' = [role |-> "assistant",
                                          content |-> data.reply,
                                          timestamp |-> now]
                    /\ messages' = AssistantAppend(messages, assistantMessageId,
                                                   data.reply)
                    /\ connectionStatus' = "connected"
            /\ UNCHANGED <<input, error, now>>
            /\ UNCHANGED <<healthVars, serverVars>>

\* the response is OK and its body is not JSON: response.json() throws
ChatReplyUnparsable(r) ==
    /\ r \in inflight
    /\ Pending(r)
    /\ Catch(r, JsonParseError)

\* the response is not OK, App.jsx:149-164
ChatHttpError(r, status) ==
    /\ r \in inflight
    /\ Pending(r)
    /\ Catch(r, HttpError(status))

\* fetch rejects: the server cannot be reached
ChatNetworkError(r, err) ==
    /\ r \in inflight
    /\ Pending(r)
    /\ Catch(r, err)

\* AbortSignal.timeout(60000) fires, App.jsx:146
ChatTimeout(r, err) ==
    /\ r \in inflight
    /\ ~Pending(r)
    /\ Catch(r, err)

----------------------------------------------------------------------------
(* The clock: time passes; no request outlives its timeout and no armed    *)
(* interval is overrun                                                     *)

ClockStep(step) ==
    /\ \A r \in inflight : now + step <= r.issuedAt + FetchTimeoutMs
    /\ interval.armed => now + step <= interval.due
    /\ now' = now + step
    /\ UNCHANGED <<messages, input, loading, error, connectionStatus,
                   sendingRef, pendingMessagesRef, lastMessageRef, inflight,
                   nextId>>
    /\ UNCHANGED <<healthVars, serverVars>>

Tick ==
    /\ now < MaxTicks * TickMs
    /\ ClockStep(TickMs)

\* nothing happens until the timeout of a request in flight is due
TickToTimeout ==
    \E r \in inflight :
        /\ now <= MaxTicks * TickMs
        /\ Pending(r)
        /\ ClockStep(r.issuedAt + FetchTimeoutMs - now)

----------------------------------------------------------------------------
(* The mount effect, App.jsx:26-51: checkConnection, once and on a timer *)

PollIntervalMs == 10000   \* App.jsx:49

MaxPolls == 2      \* the timer of the mount effect fires at most MaxPolls times

\* fetch(`${API_URL}/health`, { method: 'GET', ... }), App.jsx:30-35
HealthRequest(id) ==
    [id |-> id, method |-> "GET", url |-> API_URL \o "/health"]

\* what /health answers: a status, and in the body model_loaded true, false
\* or absent
HealthResponses ==
    [status : {200, 500, 503}, model_loaded : {"true", "false", Null}]

\* what makes the try block of checkConnection throw: fetch rejects, or
\* response.json() finds no JSON in the body of an OK response
HealthErrors == NetworkErrors \cup {JsonParseError}

\* response.ok
Ok(status) == status \in 200..299

\* data.model_loaded as a condition
Truthy(value) == value = "true"

\* the argument of setConnectionStatus, App.jsx:36-41
HealthStatus(resp) ==
    IF Ok(resp.status)
    THEN IF Truthy(resp.model_loaded) THEN "connected" ELSE "loading"
    ELSE "disconnected"

\* checkConnection up to its await, App.jsx:28-35
checkConnection ==
    /\ probesIssued' = probesIssued + 1
    /\ healthInflight' = healthInflight \cup {HealthRequest(probesIssued + 1)}

\* Rearm as setTimeout would do: the timer fires once
RearmNever(timer) == NoInterval

\* setInterval: the timer that fired is due again one period later
Rearm(timer) == [armed |-> TRUE, due |-> timer.due + PollIntervalMs]

\* the body of the effect, App.jsx:48-49
mountEffect ==
    /\ mountState = "rendered"
    /\ mountState' = "mounted"
    /\ checkConnection
    /\ interval' = [armed |-> TRUE, due |-> now + PollIntervalMs]
    /\ UNCHANGED <<clientVars, serverVars>>

\* the timer calls checkConnection, App.jsx:49
intervalFire ==
    /\ interval.armed
    /\ now = interval.due
    /\ probesIssued <= MaxPolls
    /\ checkConnection
    /\ interval' = Rearm(interval)
    /\ UNCHANGED <<mountState, clientVars, serverVars>>

\* the cleanup of the effect, App.jsx:50
unmount ==
    /\ mountState = "mounted"
    /\ mountState' = "unmounted"
    /\ interval' = NoInterval
    /\ UNCHANGED <<healthInflight, probesIssued, clientVars, serverVars>>

\* checkConnection after its await; React drops the state update of a
\* component that is no longer mounted
HealthSettle(p, status) ==
    /\ p \in healthInflight
    /\ healthInflight' = healthInflight \ {p}
    /\ connectionStatus' =
           IF mountState = "mounted" THEN status ELSE connectionStatus
    /\ UNCHANGED <<messages, input, loading, error, sendingRef,
                   pendingMessagesRef, lastMessageRef, inflight, now, nextId,
                   mountState, interval, probesIssued, serverVars>>

\* App.jsx:36-41
HealthResponse(p, resp) == HealthSettle(p, HealthStatus(resp))

\* App.jsx:42-45
HealthThrows(p, err) == HealthSettle(p, "disconnected")

\* nothing happens until the timer is due; with no timer, a period passes
HealthTick ==
    /\ mountState # "rendered"
    /\ IF interval.armed
       THEN /\ probesIssued <= MaxPolls
            /\ now < interval.due
            /\ ClockStep(interval.due - now)
       ELSE /\ now < MaxPolls * PollIntervalMs
            /\ ClockStep(PollIntervalMs)

----------------------------------------------------------------------------
Next ==
    \/ \E value \in InputTexts : onChange(value)
    \/ \E e \in KeyEvents : handleKeyDown(e)
    \/ \E e \in KeyEvents : handleKeyPress(e)
    \/ onSubmit
    \/ clearChat
    \/ \E r \in inflight, data \in ResponseBodies : ChatReply(r, data)
    \/ \E r \in inflight : ChatReplyUnparsable(r)
    \/ \E r \in inflight, status \in HttpStatuses : ChatHttpError(r, status)
    \/ \E r \in inflight, err \in NetworkErrors : ChatNetworkError(r, err)
    \/ \E r \in inflight, err \in TimeoutErrors : ChatTimeout(r, err)
    \/ Tick
    \/ TickToTimeout

Spec == Init /\ [][Next]_vars

\* the fetch of a request in flight settles: it resolves, rejects, or is
\* aborted by its timeout
Settle ==
    \E r \in inflight :
        \/ \E data \in ResponseBodies : ChatReply(r, data)
        \/ ChatReplyUnparsable(r)
        \/ \E status \in HttpStatuses : ChatHttpError(r, status)
        \/ \E err \in NetworkErrors : ChatNetworkError(r, err)
        \/ \E err \in TimeoutErrors : ChatTimeout(r, err)

\* the chat, with every fetch settling in the end
SpecLive == Init /\ [][Next]_vars /\ WF_vars(Settle)

\* the Enter key, unshifted
EnterKey == [key |-> "Enter", shiftKey |-> FALSE]

\* the mount effect and the probes, next to one chat exchange
NextHealth ==
    \/ mountEffect
    \/ intervalFire
    \/ unmount
    \/ \E p \in healthInflight, resp \in HealthResponses : HealthResponse(p, resp)
    \/ \E p \in healthInflight, err \in HealthErrors : HealthThrows(p, err)
    \/ HealthTick
    \/ mountState = "mounted" /\ \E value \in InputTexts : onChange(value)
    \/ mountState = "mounted" /\ nextId = 0 /\ handleKeyDown(EnterKey)
    \/ mountState = "mounted" /\ \E r \in inflight, data \in ResponseBodies :
                                     ChatReply(r, data)
    \/ mountState = "mounted" /\ \E r \in inflight, err \in NetworkErrors :
                                     ChatNetworkError(r, err)
    \/ mountState = "mounted" /\ Tick

SpecHealth == Init /\ [][NextHealth]_vars

----------------------------------------------------------------------------
(* The chat endpoint of the backend: Reply Generator, Quality Gate and     *)
(* Fallback Responder (backend/app/model.py, described in the notes on the *)
(* model's improvements).  A call goes through the phases                  *)
(*   idle -> received -> generated -> gated -> replied -> idle             *)

MaxReplyLen == 6   \* the generated replies enumerated have at most this length

\* thresholds of the Quality Gate
MinReplyLength == 3        \* a shorter reply is too short
CharRepeatThreshold == 3   \* repetitions of a character or short cycle
MaxCycleLength == 2        \* length of a short cycle of characters
WordRepeatThreshold == 3   \* consecutive repetitions of a word

CharAt(s, i) == SubSeq(s, i, i)

UpperCase == "ABCDEFGHIJKLMNOPQRSTUVWXYZ"
LowerCase == "abcdefghijklmnopqrstuvwxyz"

\* str.lower() on one character
LowerChar(c) ==
    IF \E i \in 1..Len(UpperCase) : CharAt(UpperCase, i) = c
    THEN CharAt(LowerCase, CHOOSE i \in 1..Len(UpperCase) : CharAt(UpperCase, i) = c)
    ELSE c

\* Lower leaving the case as it is
LowerIdentity(s) == s

\* str.lower()
RECURSIVE Lower(_)
Lower(s) ==
    IF s = "" THEN ""
    ELSE LowerChar(CharAt(s, 1)) \o Lower(SubSeq(s, 2, Len(s)))

\* the strings over an alphabet of length at most n
RECURSIVE StringsUpTo(_, _)
StringsUpTo(alphabet, n) ==
    IF n = 0 THEN {""}
    ELSE LET shorter == StringsUpTo(alphabet, n - 1)
         IN  shorter \cup {s \o c : s \in shorter, c \in alphabet}

\* what the Reply Generator may produce: every short text over a comma, a
\* letter and the space, and three replies seen in use
GeneratedReplies ==
    StringsUpTo({",", "a", " "}, MaxReplyLen)
        \cup {"cv? cv? cv?", "Merci.", "La dose usuelle est de 500 mg."}

\* the user messages the endpoint is called with
ChatMessages ==
    {"cv", "CV", " Cv ", "mon cv", "bonjour", "salut", "merci", "aide"}

\* the conversation histories the endpoint is called with
ChatHistories ==
    { <<>>,
      <<[role |-> "user", content |-> "bonjour"],
        [role |-> "assistant", content |-> "De rien!"]>> }

Punctuation == {",", ".", ";", ":", "!", "?", "-"}

\* the reply is too short
TooShort(s) == Len(Trim(s)) < MinReplyLength

\* HasRepeatedCycle finding nothing
HasRepeatedCycleNever(s) == FALSE

\* a character, or a cycle of at most MaxCycleLength characters, comes
\* CharRepeatThreshold times in a row
HasRepeatedCycle(s) ==
    \E k \in 1..MaxCycleLength, i \in 1..Len(s) :
        /\ i + k * CharRepeatThreshold - 1 <= Len(s)
        /\ \A j \in i..(i + k * (CharRepeatThreshold - 1) - 1) :
              CharAt(s, j) = CharAt(s, j + k)

\* str.split(): the words of s
RECURSIVE Words(_)
Words(s) ==
    LET t == TrimStart(s)
        ends == {i \in 1..Len(t) : IsSpace(CharAt(t, i))}
        stop == IF ends = {} THEN Len(t) + 1
                ELSE CHOOSE i \in ends : \A j \in ends : i <= j
    IN  IF t = "" THEN <<>>
        ELSE <<SubSeq(t, 1, stop - 1)>> \o Words(SubSeq(t, stop, Len(t)))

\* the same word comes WordRepeatThreshold times in a row
HasRepeatedWord(s) ==
    LET words == Words(s) IN
    \E i \in 1..Len(words) :
        /\ i + WordRepeatThreshold - 1 <= Len(words)
        /\ \A j \in i..(i + WordRepeatThreshold - 1) : words[j] = words[i]

\* the reply holds punctuation only
OnlyPunctuation(s) ==
    \A i \in 1..Len(s) : CharAt(s, i) \in Punctuation \/ IsSpace(CharAt(s, i))

\* Quality Gate: _is_repetitive(text)
is_repetitive(s) ==
    \/ TooShort(s)
    \/ HasRepeatedCycle(s)
    \/ HasRepeatedWord(s)
    \/ OnlyPunctuation(s)

CvHelpReply ==
    "Je peux vous aider avec votre CV! Que souhaitez-vous savoir? Par exemple, je peux vous aider à rédiger une section ou à améliorer votre présentation."

GreetingReply == "Bonjour! Comment puis-je vous aider aujourd'hui?"

ThanksReply == "De rien! N'hésitez pas si vous avez d'autres questions."

\* the generic reply asking for more details
GenericReply == "Pouvez-vous me donner plus de détails sur votre question?"

\* FallbackTable with the entry of the CV alone
FallbackTableCvOnly ==
    << [keywords |-> {"cv"}, reply |-> CvHelpReply] >>

\* the table of the Fallback Responder, in the order it is searched
FallbackTable ==
    << [keywords |-> {"cv"}, reply |-> CvHelpReply],
       [keywords |-> {"bonjour", "salut"}, reply |-> GreetingReply],
       [keywords |-> {"merci"}, reply |-> ThanksReply] >>

\* the entries of the table a message matches
Matches(message) ==
    LET text == Trim(Lower(message)) IN
    {i \in 1..Len(FallbackTable) :
        \E k \in FallbackTable[i].keywords : Includes(text, k)}

\* Fallback Responder: the reply of the first entry matched, or else the
\* generic reply
FallbackResponder(message) ==
    LET matches == Matches(message) IN
    IF matches = {} THEN GenericReply
    ELSE FallbackTable[CHOOSE i \in matches : \A j \in matches : i <= j].reply

\* ChatEndpointReply handing out what was generated
ChatEndpointReplyUnchecked(c) == c.generated

\* what the endpoint answers: the generated reply, or the fallback when the
\* Quality Gate rejected it
ChatEndpointReply(c) ==
    IF c.degenerate THEN FallbackResponder(c.message) ELSE c.generated

\* POST /chat arrives
receive(message, history) ==
    /\ call.phase = "idle"
    /\ call' = [Idle EXCEPT !.phase = "received", !.message = message,
                            !.history = history]
    /\ UNCHANGED <<clientVars, healthVars>>

\* the Reply Generator returns a text
generate(text) ==
    /\ call.phase = "received"
    /\ call' = [call EXCEPT !.phase = "generated", !.generated = text]
    /\ UNCHANGED <<clientVars, healthVars>>

\* the Quality Gate classifies the generated text
qualityGate ==
    /\ call.phase = "generated"
    /\ call' = [call EXCEPT !.phase = "gated",
                            !.degenerate = is_repetitive(call.generated)]
    /\ UNCHANGED <<clientVars, healthVars>>

\* the reply is chosen
respond ==
    /\ call.phase = "gated"
    /\ call' = [call EXCEPT !.phase = "replied",
                            !.reply = ChatEndpointReply(call)]
    /\ UNCHANGED <<clientVars, healthVars>>

\* the response is sent; the endpoint keeps nothing of the call
returnReply ==
    /\ call.phase = "replied"
    /\ call' = Idle
    /\ UNCHANGED <<clientVars, healthVars>>

NextBackend ==
    \/ \E message \in ChatMessages, history \in ChatHistories :
          receive(message, history)
    \/ \E text \in GeneratedReplies : generate(text)
    \/ qualityGate
    \/ respond
    \/ returnReply

SpecBackend == Init /\ [][NextBackend]_vars

----------------------------------------------------------------------------
(* Properties *)

UserMessages(msgs, content) ==
    {i \in 1..Len(msgs) : msgs[i].role = "user" /\ msgs[i].content = content}

\* a step in which one of the three triggers of a send ran its handler
SendStep ==
    \/ \E e \in KeyEvents : handleKeyDown(e)
    \/ \E e \in KeyEvents : handleKeyPress(e)
    \/ onSubmit

\* C1: at most one POST /chat request is in flight at any time.
C1_SingleRequestInFlight == Cardinality(inflight) <= 1

\* C2: when a text is submitted less than 2000 ms after a submission of the
\* same text put a user message in the history, the history holds exactly
\* one user message with that text.
C2_OneUserMessagePerWindow ==
    [][\A i \in 1..Len(messages) :
          ( /\ SendStep
            /\ Trim(input) = messages[i].content
            /\ messages[i].role = "user"
            /\ now - messages[i].timestamp < DedupWindowMs )
          => Cardinality(UserMessages(messages', messages[i].content)) = 1]_vars

\* C3: the history never holds two messages of the same role with the same
\* content whose timestamps are less than 2000 ms apart.
C3_NoDuplicateInWindow ==
    \A i, j \in 1..Len(messages) :
        ( /\ i < j
          /\ messages[i].role = messages[j].role
          /\ messages[i].content = messages[j].content )
        => messages[j].timestamp - messages[i].timestamp >= DedupWindowMs

\* a non-blank send that passed the in-flight guard appended nothing
UserDiscarded(content) ==
    /\ SendStep
    /\ ~sendingRef /\ ~loading
    /\ Trim(input) = content /\ content # ""
    /\ messages' = messages

\* a reply that was received appended nothing
AssistantDiscarded(content) ==
    /\ \E r \in inflight, data \in ResponseBodies :
          ChatReply(r, data) /\ ~ReplyMissing(data) /\ data.reply = content
    /\ messages' = messages

\* the last message of a role in the history has this content and is less
\* than 2000 ms old
RecentLastOfRole(role, content) ==
    \E i \in 1..Len(messages) :
        /\ messages[i].role = role
        /\ \A j \in (i + 1)..Len(messages) : messages[j].role # role
        /\ messages[i].content = content
        /\ now - messages[i].timestamp < DedupWindowMs

\* C4: a message is discarded as a duplicate only if the last appended
\* message of its role has the same content and was appended less than
\* 2000 ms earlier.
C4_DiscardOnlyRecentDuplicate ==
    [][/\ \A c \in {Trim(v) : v \in InputTexts} :
             UserDiscarded(c) => RecentLastOfRole("user", c)
       /\ \A c \in Replies :
             AssistantDiscarded(c) => RecentLastOfRole("assistant", c)]_vars

----------------------------------------------------------------------------
\* the fetch of r failed: a non-OK status, a body without reply or that does
\* not parse, a network error, or the timeout
RequestFailed(r) ==
    \/ \E status \in HttpStatuses : ChatHttpError(r, status)
    \/ \E data \in ResponseBodies : ReplyMissing(data) /\ ChatReply(r, data)
    \/ ChatReplyUnparsable(r)
    \/ \E err \in NetworkErrors : ChatNetworkError(r, err)
    \/ \E err \in TimeoutErrors : ChatTimeout(r, err)

\* C5: a send that passes its guards issues exactly one request, carrying
\* the trimmed input, and no step other than such a send issues a request:
\* none follows a failure until the user sends again.
C5_OneRequestPerSendNoRetry ==
    [][/\ (SendGuard(input) /\ SendStep)
            => \E q \in inflight' :
                   /\ inflight' = inflight \cup {q}
                   /\ q \notin inflight
                   /\ q.message = Trim(input)
       /\ (inflight' \ inflight # {}) => (SendGuard(input) /\ SendStep)]_vars

C5_Witness ==
    /\ inflight = {}
    /\ error # Null
    /\ Len(messages) > 0

----------------------------------------------------------------------------
NonBlankInputs == {v \in InputTexts : Trim(v) # ""}

\* C6 as claimed: once a request has failed, error is a non-empty message,
\* loading and the sending flag are false and any non-blank input is
\* accepted by a send.
C6_AnySendAcceptedAfterFailure ==
    error # Null =>
        /\ error # ""
        /\ ~loading
        /\ ~sendingRef
        /\ ~InputDisabled
        /\ \A v \in NonBlankInputs : SendGuard(v)

\* C6 (amended): once a request has failed, error is a non-empty message,
\* loading and the sending flag are false and the input is enabled; a send
\* of a non-blank input is accepted unless its trimmed text is the user text
\* recorded by the last send and less than 2000 ms have passed since.
C6_UsableAfterFailure ==
    error # Null =>
        /\ error # ""
        /\ ~loading
        /\ ~sendingRef
        /\ ~InputDisabled
        /\ \A v \in NonBlankInputs :
              SendGuard(v) <=>
                  ~( /\ lastMessageRef.role = "user"
                     /\ lastMessageRef.content = Trim(v)
                     /\ now < lastMessageRef.timestamp + DedupWindowMs )

C6_Witness ==
    /\ error # Null
    /\ \E v \in NonBlankInputs : SendGuard(v)
    /\ \E v \in NonBlankInputs : ~SendGuard(v)

----------------------------------------------------------------------------
\* the message the claim gives for each status
ExpectedHttpMessage(status) ==
    CASE status = 403 ->
           "Accès refusé. Vérifiez que le backend est démarré et que CORS est configuré correctement. (403)"
      [] status = 404 -> "Endpoint non trouvé. Vérifiez l'URL de l'API. (404)"
      [] status = 500 -> "Erreur serveur. Le modèle n'est peut-être pas chargé. (500)"
      [] status = 503 ->
           "Service indisponible. Le modèle est en cours de chargement... (503)"
      [] status = 400 -> "Erreur 400 (400)"

\* C7: a non-OK response sets the error to the message of its status with
\* the status in parentheses, and leaves the history as it was.
C7_HttpErrorMessage ==
    [][\A r \in inflight, status \in HttpStatuses :
          ChatHttpError(r, status)
              => /\ error' = ExpectedHttpMessage(status)
                 /\ messages' = messages]_vars

C7_Witness ==
    /\ error = "Erreur 400 (400)"
    /\ Len(messages) = 1

----------------------------------------------------------------------------
\* C8: a request that is aborted by its 60 s timeout sets the error to the
\* Timeout message, clears loading and the sending flag and is not retried.
C8_TimeoutMessage ==
    [][\A r \in inflight, err \in TimeoutErrors :
          ChatTimeout(r, err)
              => /\ now >= r.issuedAt + FetchTimeoutMs
                 /\ error' = TimeoutMessage
                 /\ ~loading'
                 /\ ~sendingRef'
                 /\ inflight' = inflight \ {r}]_vars

----------------------------------------------------------------------------
\* C9: an OK response whose body has no reply, or an empty one, sets the
\* error to 'Réponse invalide du serveur' and leaves the history as it was.
C9_InvalidReply ==
    [][\A r \in inflight, data \in ResponseBodies :
          (ChatReply(r, data) /\ data.reply \in {Null, ""})
              => /\ error' = "Réponse invalide du serveur"
                 /\ messages' = messages]_vars

C9_Witness ==
    /\ error = "Réponse invalide du serveur"
    /\ Len(messages) > 0

----------------------------------------------------------------------------
\* C10: a fetch rejected with a TypeError that mentions fetch sets the error
\* to the cannot-connect message naming the API URL and connectionStatus to
\* 'disconnected'.
C10_NetworkFailure ==
    [][\A r \in inflight, err \in NetworkErrors :
          ( /\ ChatNetworkError(r, err)
            /\ err.name = "TypeError"
            /\ Includes(err.message, "fetch") )
              => /\ error' = "Impossible de se connecter au backend. Vérifiez que le serveur est démarré sur "
                                \o API_URL
                 /\ connectionStatus' = "disconnected"]_vars

C10_Witness ==
    /\ connectionStatus = "disconnected"
    /\ error = ConnectMessage

----------------------------------------------------------------------------
(* Health polling *)

\* the probes issued by the time now: one at mount, one per period since
PollSchedule ==
    /\ mountState = "rendered" => probesIssued = 0
    /\ mountState = "mounted" =>
          /\ probesIssued >= 1
          /\ interval.armed
          /\ interval.due = probesIssued * PollIntervalMs
          /\ interval.due - PollIntervalMs <= now
          /\ now <= interval.due
    /\ mountState = "unmounted" => ~interval.armed
    /\ \A p \in healthInflight :
          p.method = "GET" /\ p.url = API_URL \o "/health"

\* C11: the client probes GET /health once at mount and then once every
\* 10 seconds until unmount, whatever the chat is doing (a chat request
\* pending, or failed); a completed probe sets connectionStatus to
\* "connected" when the response is OK with model_loaded true, to "loading"
\* when it is OK with model_loaded false, and to "disconnected" when the
\* response is not OK or the probe throws.
C11_HealthPolling ==
    /\ []PollSchedule
    /\ [][/\ mountState = "unmounted" => probesIssued' = probesIssued
          /\ \A p \in healthInflight, resp \in HealthResponses :
                (mountState = "mounted" /\ HealthResponse(p, resp)) =>
                    /\ (resp.status = 200 /\ resp.model_loaded = "true")
                           => connectionStatus' = "connected"
                    /\ (resp.status = 200 /\ resp.model_loaded = "false")
                           => connectionStatus' = "loading"
                    /\ resp.status # 200
                           => connectionStatus' = "disconnected"
          /\ \A p \in healthInflight, err \in HealthErrors :
                (mountState = "mounted" /\ HealthThrows(p, err)) =>
                    connectionStatus' = "disconnected"]_vars

\* the timer has fired twice while a chat request is pending, and a probe
\* has found the model still loading
C11_Witness ==
    /\ mountState = "mounted"
    /\ probesIssued >= 3
    /\ inflight # {}
    /\ loading
    /\ connectionStatus = "loading"

----------------------------------------------------------------------------
(* The request body *)

\* C12: the history in the body of a chat request is the ordered list of
\* the (role, content) pairs of the messages the conversation held before
\* the send; the user message this send appends is not in it (its text is
\* in the message field), and neither is the reply, which does not exist
\* when the request is issued.
C12_HistoryIsPriorMessages ==
    [][(SendGuard(input) /\ SendStep) =>
          \E q \in inflight' \ inflight :
              /\ q.message = Trim(input)
              /\ Len(q.history) = Len(messages)
              /\ \A i \in 1..Len(messages) :
                    /\ q.history[i].role = messages[i].role
                    /\ q.history[i].content = messages[i].content
              /\ \/ messages' = messages
                 \/ /\ Len(messages') = Len(messages) + 1
                    /\ messages'[Len(messages')].id = q.id
                    /\ messages'[Len(messages')].content = q.message]_vars

\* a request in flight carries an exchange of two messages as its history,
\* and its user message is the third message of the conversation
C12_Witness ==
    \E r \in inflight :
        /\ Len(r.history) = 2
        /\ r.history[2].role = "assistant"
        /\ Len(messages) = 3
        /\ messages[3].id = r.id

----------------------------------------------------------------------------
(* Order of the history *)

\* msgs is the beginning of msgs2
IsPrefix(msgs, msgs2) ==
    /\ Len(msgs) <= Len(msgs2)
    /\ \A i \in 1..Len(msgs) : msgs2[i] = msgs[i]

\* along the history the ids were generated one after the other and the
\* timestamps do not decrease: insertion order
InsertionOrder ==
    \A i, j \in 1..Len(messages) :
        i < j => /\ messages[i].id < messages[j].id
                 /\ messages[i].timestamp <= messages[j].timestamp

\* C13: between clears the history only grows at its end: a step of any
\* operation other than clearChat leaves the messages it found (id, role,
\* content, timestamp) in place and appends at most one; the history is
\* always in insertion order.
C13_AppendOnly ==
    /\ []InsertionOrder
    /\ [][\/ clearChat
          \/ /\ IsPrefix(messages, messages')
             /\ Len(messages') <= Len(messages) + 1]_vars

\* a user message, its reply and a second user message, appended in turn
C13_Witness ==
    /\ Len(messages) = 3
    /\ messages[1].role = "user"
    /\ messages[2].role = "assistant"
    /\ messages[3].role = "user"

----------------------------------------------------------------------------
(* The loading state *)

\* C14 as claimed: loading (typing indicator shown, input and send button
\* disabled) is true at every moment a chat request is in flight and false
\* whenever none is.
C14_LoadingIffInFlight == loading <=> inflight # {}

----------------------------------------------------------------------------
(* clearChat *)

\* C15: clearChat empties the history, clears the error and resets the
\* record used to suppress duplicates; when no request is in flight, a send
\* of any non-blank text in the state it leaves, the text sent just before
\* the clear included, is accepted and would append that text as a user
\* message.
C15_ClearAllowsResend ==
    [][/\ clearChat =>
             /\ messages' = <<>>
             /\ error' = Null
             /\ lastMessageRef' = NoMessage
             /\ inflight' = {} =>
                   \A v \in NonBlankInputs :
                       /\ SendGuard(v)'
                       /\ Len(UserAppend(messages, nextId + 1, Trim(v))') = 1
                       /\ UserAppend(messages, nextId + 1, Trim(v))'[1].content
                              = Trim(v)
       /\ (messages = <<>> /\ SendGuard(input) /\ SendStep) =>
             /\ Len(messages') = 1
             /\ messages'[1].role = "user"
             /\ messages'[1].content = Trim(input)]_vars

\* the history was cleared right after a send of "cv" failed: nothing is in
\* flight, the window of that send is still open, and "cv" is typed again
C15_Witness ==
    /\ messages = <<>>
    /\ lastMessageRef = NoMessage
    /\ nextId = 1
    /\ now = 0
    /\ inflight = {}
    /\ Trim(input) = "cv"

----------------------------------------------------------------------------
(* The chat endpoint *)

\* C16: when the Quality Gate rejected the generated reply, the reply of
\* the Chat Endpoint is the string of the Fallback Responder for the user
\* message; whatever the message and the history, the reply is not empty.
C16_FallbackWhenRejected ==
    call.phase = "replied" =>
        /\ call.degenerate => call.reply = FallbackResponder(call.message)
        /\ call.reply # ""
        /\ Len(call.reply) > 0

\* a run of commas was generated for "mon cv" and the endpoint answers
\* with the help on the CV
C16_Witness ==
    /\ call.phase = "replied"
    /\ call.message = "mon cv"
    /\ call.history # <<>>
    /\ call.generated = ",,,,,,"
    /\ call.degenerate
    /\ call.reply = CvHelpReply

\* s is one character, CharRepeatThreshold times or more
SingleCharRun(s) ==
    /\ Len(s) >= CharRepeatThreshold
    /\ \A i \in 1..Len(s) : CharAt(s, i) = CharAt(s, 1)

\* C17: a reply that is one character repeated at least the threshold
\* number of times (a run of commas, say) is classified as degenerate by
\* the Quality Gate, and the classification changes nothing but its
\* verdict.
C17_CharRunIsDegenerate ==
    /\ []( ( /\ call.phase \in {"gated", "replied"}
             /\ SingleCharRun(call.generated) ) => call.degenerate )
    /\ [][qualityGate =>
             /\ call'.message = call.message
             /\ call'.history = call.history
             /\ call'.generated = call.generated
             /\ call'.reply = call.reply
             /\ UNCHANGED <<clientVars, healthVars>>]_vars

\* the gate has rejected a run of three letters
C17_Witness ==
    /\ call.phase = "gated"
    /\ call.generated = "aaa"
    /\ call.degenerate

\* C18: for the user message "cv" or "CV", compared in lower case and
\* trimmed, the Fallback Responder returns the help on the CV.
C18_CvHelp ==
    ( /\ call.phase = "replied"
      /\ call.degenerate
      /\ call.message \in {"cv", "CV", " Cv "} ) => call.reply = CvHelpReply

\* the fallback answered the message "CV"
C18_Witness ==
    /\ call.phase = "replied"
    /\ call.degenerate
    /\ call.message = "CV"
    /\ call.reply = CvHelpReply

\* C19: for the user message "bonjour", and likewise "salut", the Fallback
\* Responder returns the greeting, for "merci" the acknowledgement, and for
\* a message that matches no keyword of its table the generic reply.
C19_GreetingThanksGeneric ==
    (call.phase = "replied" /\ call.degenerate) =>
        /\ call.message \in {"bonjour", "salut"} => call.reply = GreetingReply
        /\ call.message = "merci" => call.reply = ThanksReply
        /\ (\A k \in {"cv", "bonjour", "salut", "merci"} :
               ~Includes(Trim(Lower(call.message)), k))
              => call.reply = GenericReply

\* the fallback answered "salut" with the greeting
C19_Witness ==
    /\ call.phase = "replied"
    /\ call.degenerate
    /\ call.message = "salut"
    /\ call.reply = GreetingReply

----------------------------------------------------------------------------
(* Replies *)

\* C21 as claimed: a chat request that completes with an OK status and a
\* non-empty reply appends an assistant message with that reply as content
\* at the end of the history, also when the reply equals an earlier
\* assistant message.
C21_ReplyAlwaysAppended ==
    [][\A r \in inflight, data \in ResponseBodies :
          (ChatReply(r, data) /\ ~ReplyMissing(data)) =>
              /\ Len(messages') = Len(messages) + 1
              /\ IsPrefix(messages, messages')
              /\ messages'[Len(messages')].role = "assistant"
              /\ messages'[Len(messages')].content = data.reply]_vars

----------------------------------------------------------------------------
(* Sending again after a failure *)

\* C22 as claimed: when the last message of the history is a user message
\* with content c whose request failed and c is sent again 2000 ms or more
\* later, no second user message is appended and exactly one request for c
\* is issued; the reply to that request is appended directly after the
\* existing user message.  The second part is stated for a conversation
\* that held that user message alone when c was sent again: its request
\* cannot but have failed.
C22_ResendAfterFailure ==
    [][/\ ( /\ SendGuard(input) /\ SendStep
            /\ LastIs(messages, "user", Trim(input))
            /\ error # Null
            /\ now - messages[Len(messages)].timestamp >= DedupWindowMs )
          => /\ messages' = messages
             /\ \E q \in inflight' \ inflight :
                   /\ inflight' = inflight \cup {q}
                   /\ q.message = Trim(input)
       /\ \A r \in inflight, data \in ResponseBodies :
             ( /\ ChatReply(r, data) /\ ~ReplyMissing(data)
               /\ r.history = <<[role |-> "user", content |-> r.message]>> )
             => /\ Len(messages') = 2
                /\ messages'[1].role = "user"
                /\ messages'[1].content = r.message
                /\ messages'[2].role = "assistant"
                /\ messages'[2].content = data.reply]_vars

----------------------------------------------------------------------------
(* The history and the input after a failure *)

\* C23: when a chat request fails, the step that handles the failure
\* leaves the history as it is (the user message of that send stays, no
\* assistant message is appended, the earlier messages are unchanged) and
\* does not touch the input field: the text that was sent is not put back.
C23_FailureKeepsHistoryAndInput ==
    [][\A r \in inflight \ inflight' :
          RequestFailed(r) =>
              /\ messages' = messages
              /\ input' = input
              /\ \A i \in 1..Len(messages) :
                    messages[i].id = r.id =>
                        /\ messages'[i].role = "user"
                        /\ messages'[i].content = r.message]_vars

\* the request of the only send has failed: its user message is the whole
\* history and the input field is empty
C23_Witness ==
    /\ inflight = {}
    /\ error # Null
    /\ nextId = 1
    /\ input = ""
    /\ Len(messages) = 1
    /\ messages[1].role = "user"
    /\ messages[1].id = 1

----------------------------------------------------------------------------
(* Shape of the history *)

\* C24 as claimed: every assistant message of the history has a user
\* message before it, so the history never starts with an assistant
\* message, whatever the interleaving of sends, replies, failures and
\* clearChat, a clearChat while a request is in flight included.
C24_AssistantAfterUser ==
    \A i \in 1..Len(messages) :
        messages[i].role = "assistant" =>
            \E j \in 1..(i - 1) : messages[j].role = "user"

----------------------------------------------------------------------------
(* The Enter key *)

\* the handler of keydown, or that of keypress, runs for an unshifted Enter
EnterPress == handleKeyDown(EnterKey) \/ handleKeyPress(EnterKey)

\* a handler runs for Enter with Shift
ShiftEnterPress ==
    \/ handleKeyDown([key |-> "Enter", shiftKey |-> TRUE])
    \/ handleKeyPress([key |-> "Enter", shiftKey |-> TRUE])

\* the step issued one request carrying the trimmed input
OneRequestIssued ==
    \E q \in inflight' \ inflight :
        /\ inflight' = inflight \cup {q}
        /\ q.message = Trim(input)

\* the step appended one user message with the trimmed input as content
OneUserMessageAppended ==
    /\ Len(messages') = Len(messages) + 1
    /\ IsPrefix(messages, messages')
    /\ messages'[Len(messages')].role = "user"
    /\ messages'[Len(messages')].content = Trim(input)

----------------------------------------------------------------------------
(* Return to idle *)

\* the client is idle
IdleClient == ~loading /\ ~sendingRef

\* C26: every accepted send is followed by a state in which the client is
\* idle (loading and the sending flag false), on whichever path its
\* request completes (reply appended, reply dropped as a duplicate, HTTP
\* error, malformed response, network error, timeout), given that every
\* fetch settles in the end.
C26_ReturnsToIdle ==
    (inflight # {} \/ ~IdleClient) ~> IdleClient

\* a request timed out and the client is idle again
C26_Witness ==
    /\ IdleClient
    /\ inflight = {}
    /\ now >= FetchTimeoutMs
    /\ error # Null
    /\ Len(messages) = 1

----------------------------------------------------------------------------
(* Sending nothing *)

\* the text is empty or holds white space only
Blank(text) == \A i \in 1..Len(text) : IsSpace(SubSeq(text, i, i))

\* C27: a send attempted while the input is empty or holds white space
\* only does nothing: no message is appended, no request is issued, and
\* input, error, loading, the sending flag, the record of the last message
\* and connectionStatus are unchanged.
C27_BlankSendIsNoOp ==
    [][(Blank(input) /\ SendStep) =>
          /\ messages' = messages
          /\ inflight' = inflight
          /\ input' = input
          /\ error' = error
          /\ loading' = loading
          /\ sendingRef' = sendingRef
          /\ lastMessageRef' = lastMessageRef
          /\ connectionStatus' = connectionStatus
          /\ pendingMessagesRef' = pendingMessagesRef
          /\ nextId' = nextId]_vars

\* a space was typed after a failure: the input is enabled, and a send
\* finds white space only, with an error on display
C27_Witness ==
    /\ input = " "
    /\ ~InputDisabled
    /\ error # Null
    /\ Len(messages) = 1

----------------------------------------------------------------------------
(* The start of a send *)

\* C28 as claimed: an accepted send clears the input and the error, sets
\* loading and appends the user message with the trimmed input as content,
\* which is the message field of the request it issues; so the user
\* message of an exchange is in the history, before the reply, when the
\* reply of that exchange is appended.
C28_SendStart ==
    [][/\ (SendGuard(input) /\ SendStep) =>
             /\ input' = ""
             /\ error' = Null
             /\ loading'
             /\ OneUserMessageAppended
             /\ \E q \in inflight' \ inflight :
                   /\ q.id = messages'[Len(messages')].id
                   /\ q.message = messages'[Len(messages')].content
       /\ \A r \in inflight \ inflight', data \in ResponseBodies :
             (ChatReply(r, data) /\ Len(messages') = Len(messages) + 1) =>
                 \E i \in 1..Len(messages) :
                     /\ messages[i].role = "user"
                     /\ messages[i].content = r.message]_vars

----------------------------------------------------------------------------
(* connectionStatus and the outcomes of a chat request *)

\* the request ends with an HTTP error status, a malformed response or a
\* timeout
FailedOtherThanNetwork(r) ==
    \/ \E status \in HttpStatuses : ChatHttpError(r, status)
    \/ \E data \in ResponseBodies : ReplyMissing(data) /\ ChatReply(r, data)
    \/ ChatReplyUnparsable(r)
    \/ \E err \in TimeoutErrors : ChatTimeout(r, err)

\* C29: of the outcomes of a chat request only a success, which sets
\* connectionStatus to "connected", and a failure of the network, which
\* sets it to "disconnected", change connectionStatus; an HTTP error
\* status, a malformed response and a timeout leave it as it is.
C29_StatusChangedBySuccessOrNetwork ==
    [][\A r \in inflight \ inflight' :
          /\ FailedOtherThanNetwork(r) => connectionStatus' = connectionStatus
          /\ connectionStatus' # connectionStatus =>
                \/ /\ \E data \in ResponseBodies :
                         ChatReply(r, data) /\ ~ReplyMissing(data)
                   /\ connectionStatus' = "connected"
                \/ /\ \E err \in NetworkErrors : ChatNetworkError(r, err)
                   /\ connectionStatus' = "disconnected"]_vars

\* after a successful exchange a request ended with status 500, and
\* connectionStatus is still "connected"
C29_Witness ==
    /\ connectionStatus = "connected"
    /\ error = HttpError(500).message
    /\ inflight = {}
    /\ Len(messages) = 3

----------------------------------------------------------------------------
(* Overlapping probes *)

\* a probe started after p has completed already
Superseded(p) ==
    \E id \in (p.id + 1)..probesIssued :
        \A q \in healthInflight : q.id # id

\* C30 as claimed: connectionStatus reflects the outcome of the probe
\* started last: a probe that completes after a probe started later than
\* itself has completed does not overwrite that probe's result.
C30_LatestProbeWins ==
    [][\A p \in healthInflight \ healthInflight' :
          ( /\ Superseded(p)
            /\ \/ \E resp \in HealthResponses : HealthResponse(p, resp)
               \/ \E err \in HealthErrors : HealthThrows(p, err) )
          => connectionStatus' = connectionStatus]_vars

----------------------------------------------------------------------------
(* The pending ids *)

\* C31: whenever no chat request is in flight the set of pending message
\* ids is empty: the id added when a send starts is removed on every path
\* on which its request completes (reply appended, reply dropped as a
\* duplicate, any error), at once when the user message is dropped as a
\* duplicate, and by clearChat, which empties the set.
C31_NoPendingWhenIdle ==
    /\ [](inflight = {} => pendingMessagesRef = {})
    /\ [][/\ \A r \in inflight \ inflight' : r.id \notin pendingMessagesRef'
          /\ \A q \in inflight' \ inflight :
                LastIs(messages, "user", q.message)
                    => q.id \notin pendingMessagesRef'
          /\ clearChat => pendingMessagesRef' = {}]_vars

\* an exchange succeeded and the next request failed: nothing is in
\* flight and no id is pending
C31_Witness ==
    /\ inflight = {}
    /\ pendingMessagesRef = {}
    /\ nextId = 3
    /\ Len(messages) = 3
    /\ messages[2].role = "assistant"
    /\ error # Null

====
